---- MODULE Spec2Model ----
(***************************************************************************)
(* Model of the two offline image tools of zap-engine:                     *)
(*   tools/generate_normals.py    (Sobel normal-map generator)             *)
(*   tools/generate_bg_texture.py (value-noise background texture)         *)
(*                                                                         *)
(* Floating-point values are modelled by exact rationals.  A height is a   *)
(* numerator over HeightDen, a strength a numerator over StrengthDen, and  *)
(* a normalised component c / sqrt(M) is kept as the pair (c, M) and only  *)
(* compared, never evaluated, so that the byte encoding is exact.          *)
(***************************************************************************)
EXTENDS Integers, Sequences, FiniteSets, TLC

VARIABLES
    npc,        \* generate_normals.main: position in the run
    nFile,      \* the image stored at the input path, or NoFile
    nStrength,  \* --strength, numerator over StrengthDen
    nSource,    \* --source
    nOpened,    \* whether Image.open has been called on the input path
    nImg,       \* the decoded RGBA image, or NoImage
    nMap,       \* the result of sobel_normal_map, or NoImage
    nWritten,   \* what has been saved at the output path, or NoImage
    nExit       \* process exit code, -1 while running

VARIABLES
    tpc,        \* generate_bg_texture.main: position in the run
    tSize,      \* --size
    tSeed,      \* --seed
    tNoise,     \* the noise fields generate_texture has constructed, in order
    tGrid,      \* the image of generate_texture: its pixels and how often each was written
    tCur,       \* number of iterations of the pixel loop completed
    tLast,      \* the intermediate values of the last pixel computed
    tDir,       \* whether the output directory has been created
    tSaved,     \* what has been saved at the output path, or NoGrid
    tExit       \* process exit code, -1 while running

VARIABLES
    hSeeds,     \* the seed each ValueNoise2D instance is constructed with
    hPhase,     \* how many statements of __init__ each instance has executed
    hGen,       \* the random.Random generators, by generator
    hPerm,      \* self.perm of each instance
    hValues,    \* self.values of each instance
    hSample     \* the last call of sample: instance, arguments, indices used, result

nvars == <<npc, nFile, nStrength, nSource, nOpened, nImg, nMap, nWritten, nExit>>

tvars == <<tpc, tSize, tSeed, tNoise, tGrid, tCur, tLast, tDir, tSaved, tExit>>

hvars == <<hSeeds, hPhase, hGen, hPerm, hValues, hSample>>

vars == <<nvars, tvars, hvars>>

----------------------------------------------------------------------------
(* Bounds of the model *)

MaxDim == 3          \* images are 1..MaxDim pixels wide and high
MaxStrengthNum == 4  \* strengths run from -1/StrengthDen to MaxStrengthNum/StrengthDen
StrengthDen == 2     \* a strength is a numerator over StrengthDen

NoFile == [w |-> 0, h |-> 0, px |-> <<>>]
NoImage == [w |-> 0, h |-> 0, px |-> << <<>> >>]

(* RGBA pixels the input images are painted with.  The third and the fifth  *)
(* have the same luminance (1/3) and different alpha; the second and the   *)
(* fifth the same alpha and different luminance.                           *)
Palette ==
    { <<0, 0, 0, 0>>, <<255, 255, 255, 255>>, <<0, 98, 241, 170>>,
      <<2, 248, 209, 85>>, <<3, 119, 125, 255>> }

Patterns(w, h) ==
    {<<"bump", bx, by>> : bx \in 0..(w - 1), by \in 0..(h - 1)}
        \cup {<<"col", k, 0>> : k \in 0..(w - 1)}
        \cup {<<"row", 0, k>> : k \in 0..(h - 1)}
        \cup {<<"diag", 0, 0>>}

Sel(pat, x, y) ==
    CASE pat[1] = "bump" -> x = pat[2] /\ y = pat[3]
      [] pat[1] = "col" -> x = pat[2]
      [] pat[1] = "row" -> y = pat[3]
      [] OTHER -> (x + y) % 2 = 1

MkImage(w, h, p0, p1, pat) ==
    [w |-> w, h |-> h,
     px |-> [c \in (0..(w - 1)) \X (0..(h - 1)) |->
                IF Sel(pat, c[1], c[2]) THEN p1 ELSE p0]]

Dims == (1..MaxDim) \X (1..MaxDim)

Images ==
    UNION { { MkImage(d[1], d[2], pp[1], pp[2], pat) : pat \in Patterns(d[1], d[2]) } :
            d \in Dims, pp \in Palette \X Palette }

Strengths == (-1)..MaxStrengthNum
Sources == {"alpha", "luminance"}

----------------------------------------------------------------------------
(* Arithmetic helpers *)

Max(a, b) == IF a >= b THEN a ELSE b
Min(a, b) == IF a <= b THEN a ELSE b
Abs(a) == IF a < 0 THEN -a ELSE a

RECURSIVE Gcd(_, _)
Gcd(a, b) == IF b = 0 THEN a ELSE Gcd(b, a % b)

Gcd3(a, b, c) == Gcd(Gcd(Abs(a), Abs(b)), Abs(c))

\* a * sqrt(M) <= b, for integers a, b and M > 0
LeqSqrt(a, M, b) ==
    IF a <= 0 THEN b >= 0 \/ a * a * M >= b * b
              ELSE b >= 0 /\ a * a * M <= b * b

----------------------------------------------------------------------------
(* sobel_normal_map *)

HeightDen == 255 * 1000

\* lines 51-55: height of one pixel, as a numerator over HeightDen
HeightOf(p, source) ==
    IF source = "alpha" THEN 1000 * p[4]
    ELSE 299 * p[1] + 587 * p[2] + 114 * p[3]

\* lines 48-55
HeightMap(img, source) ==
    [c \in DOMAIN img.px |-> HeightOf(img.px[c], source)]

ClampWrap(p, d, n) == (p + d) % n

\* lines 68-69: the coordinate the closure h reads for offset d from position p
ClampCoord(p, d, n) == Max(0, Min(n - 1, p + d))

\* lines 67-70: h(dx, dy) at pixel (x, y)
SampleCoord(img, x, y, dx, dy) ==
    <<ClampCoord(x, dx, img.w), ClampCoord(y, dy, img.h)>>

HAt(hm, img, x, y, dx, dy) == hm[SampleCoord(img, x, y, dx, dy)]

\* lines 73-77
SobelGx(hm, img, x, y) ==
    (-1) * HAt(hm, img, x, y, -1, -1) + 1 * HAt(hm, img, x, y, 1, -1)
    + (-2) * HAt(hm, img, x, y, -1, 0) + 2 * HAt(hm, img, x, y, 1, 0)
    + (-1) * HAt(hm, img, x, y, -1, 1) + 1 * HAt(hm, img, x, y, 1, 1)

\* lines 80-83
SobelGy(hm, img, x, y) ==
    (-1) * HAt(hm, img, x, y, -1, -1) + (-2) * HAt(hm, img, x, y, 0, -1)
    + (-1) * HAt(hm, img, x, y, 1, -1)
    + 1 * HAt(hm, img, x, y, -1, 1) + 2 * HAt(hm, img, x, y, 0, 1)
    + 1 * HAt(hm, img, x, y, 1, 1)

\* lines 86-87: gradient times strength, numerator over HeightDen * StrengthDen
Scaled(g, strength) == g * strength

\* The normal before normalisation is (-gx, -gy, 1.0); with everything over the
\* common denominator q = HeightDen * StrengthDen and divided by the common gcd
\* it is (nx, ny, nz) / nz with integer nx, ny, nz.
RawNormal(gxs, gys) ==
    LET q == HeightDen * StrengthDen
        g == Gcd3(gxs, gys, q)
    IN [nx |-> (-gxs) \div g, ny |-> (-gys) \div g, nz |-> q \div g]

\* lines 93-96: division by the length; a component c of the result is
\* c / sqrt(len2)
NormalWithLength(n, len2) == [nx |-> n.nx, ny |-> n.ny, nz |-> n.nz, len2 |-> len2]

NormalizeByZ(n) == NormalWithLength(n, n.nz * n.nz)

\* line 93: length = sqrt(nx * nx + ny * ny + nz * nz)
Normalize(n) == NormalWithLength(n, n.nx * n.nx + n.ny * n.ny + n.nz * n.nz)

\* lines 99-101: int(max(0, min(255, (c * 0.5 + 0.5) * 255))) for the component
\* c / sqrt(len2): the largest k in 0..255 with k <= 127.5 * (1 + c / sqrt(len2)),
\* i.e. with (2k - 255) * sqrt(len2) <= 255 * c.  The value lies in [0, 255], so
\* the clamp leaves it alone and int() truncates towards zero, which is floor.
RECURSIVE FloorSearch(_, _, _, _)
FloorSearch(lo, hi, c, len2) ==
    IF lo = hi THEN lo
    ELSE LET mid == (lo + hi + 1) \div 2
         IN IF LeqSqrt(2 * mid - 255, len2, 255 * c)
            THEN FloorSearch(mid, hi, c, len2)
            ELSE FloorSearch(lo, mid - 1, c, len2)

EncodeChannel(c, len2) == FloorSearch(0, 255, c, len2)

OutAlphaOpaque(p, r, g, b) == 255

\* line 104: the alpha written with the encoded normal
OutAlpha(p, r, g, b) == p[4]

\* lines 65-105: the pixel written at (x, y)
NormalPixel(hm, img, x, y, strength) ==
    LET n == Normalize(RawNormal(Scaled(SobelGx(hm, img, x, y), strength),
                                 Scaled(SobelGy(hm, img, x, y), strength)))
        r == EncodeChannel(n.nx, n.len2)
        g == EncodeChannel(n.ny, n.len2)
        b == EncodeChannel(n.nz, n.len2)
    IN <<r, g, b, OutAlpha(img.px[<<x, y>>], r, g, b)>>

\* lines 44-107
SobelNormalMap(img, strength, source) ==
    LET hm == HeightMap(img, source)
    IN [w |-> img.w, h |-> img.h,
        px |-> [c \in DOMAIN img.px |-> NormalPixel(hm, img, c[1], c[2], strength)]]

----------------------------------------------------------------------------
(* Exact rationals <<numerator, denominator>>, denominator > 0, in lowest terms *)

RNorm(n, d) == LET g == Gcd(Abs(n), d) IN <<n \div g, d \div g>>

RInt(k) == <<k, 1>>

RAdd(a, b) ==
    LET l == (a[2] \div Gcd(a[2], b[2])) * b[2]
    IN RNorm(a[1] * (l \div a[2]) + b[1] * (l \div b[2]), l)

RNeg(a) == <<-a[1], a[2]>>

RSub(a, b) == RAdd(a, RNeg(b))

RMul(a, b) ==
    LET g1 == Gcd(Abs(a[1]), b[2])
        g2 == Gcd(Abs(b[1]), a[2])
    IN RNorm((a[1] \div g1) * (b[1] \div g2), (a[2] \div g2) * (b[2] \div g1))

RLess(a, b) == a[1] * b[2] < b[1] * a[2]

RLeq(a, b) == a[1] * b[2] <= b[1] * a[2]

\* math.floor
RFloor(a) == a[1] \div a[2]

----------------------------------------------------------------------------
(* random.Random: the standard library generator.  Its stream is a          *)
(* deterministic function of the seed and of the number of values drawn so  *)
(* far; it stands here as a counter-based 15-bit mixing function.  A        *)
(* generator is the record [seed, drawn].                                   *)

RngModulus == 32768
RngMultiplier == 7919
RngIncrement == 10473

\* random.Random(seed): an int seed is used by absolute value
RngSeeded(seed) == [seed |-> Abs(seed) % RngModulus, drawn |-> 0]

\* the k-th raw value of the stream of generator g, counted from its seeding
RngRaw(g, k) ==
    LET z == (g.seed * RngMultiplier + k * RngIncrement + 1) % RngModulus
    IN (z * z + (z \div 128) + k) % RngModulus

\* the generator after k more draws
RngAdvance(g, k) == [g EXCEPT !.drawn = g.drawn + k]

\* the value randbelow(n) returns as the k-th next draw of g
RandBelow(g, k, n) == (RngRaw(g, g.drawn + k) * n) \div RngModulus

\* the value random() returns as the k-th next draw of g, numerator over ValueDen
ValueDen == 256
RandomValue(g, k) == RngRaw(g, g.drawn + k) \div (RngModulus \div ValueDen)

----------------------------------------------------------------------------
(* ValueNoise2D *)

TableSize == 256
HashMask == 255

Swap(f, i, j) == [f EXCEPT ![i] = f[j], ![j] = f[i]]

\* random.shuffle(x): for i in reversed(range(1, len(x))): j = randbelow(i + 1);
\* x[i], x[j] = x[j], x[i].  ShuffleSteps applies the steps i = hi down to lo;
\* step i is draw number len(x) - i.  The steps are applied half by half: the
\* list q left by the first half is evaluated once, as the element of a
\* singleton, and the second half is applied to it.
RECURSIVE ShuffleSteps(_, _, _, _)
ShuffleSteps(p, g, hi, lo) ==
    IF hi < lo THEN p
    ELSE IF hi = lo THEN Swap(p, hi, RandBelow(g, Cardinality(DOMAIN p) - hi, hi + 1))
    ELSE CHOOSE r \in { ShuffleSteps(q, g, (hi + lo) \div 2, lo) :
                         q \in {ShuffleSteps(p, g, hi, (hi + lo) \div 2 + 1)} } : TRUE

\* line 40
RangePerm == [i \in 0..(TableSize - 1) |-> i]

\* line 41: the shuffled list and the generator after the shuffle
Shuffled(p, g) ==
    LET n == Cardinality(DOMAIN p)
    IN [perm |-> ShuffleSteps(p, g, n - 1, 1), rng |-> RngAdvance(g, n - 1)]

PermNotDoubled(p) == p

\* line 42: self.perm += self.perm
PermDoubled(p) ==
    LET n == Cardinality(DOMAIN p)
    IN [i \in 0..(2 * n - 1) |-> p[i % n]]

\* line 43: [rng.random() for _ in range(256)] and the generator afterwards
RandomValues(g) ==
    [values |-> [i \in 0..(TableSize - 1) |-> RandomValue(g, i + 1)],
     rng |-> RngAdvance(g, TableSize)]

\* lines 38-43: the lattice of ValueNoise2D(seed), constructed on its own
ValueNoise2D(seed) ==
    CHOOSE nz \in { [perm |-> PermDoubled(sh.perm), values |-> RandomValues(sh.rng).values] :
                     sh \in {Shuffled(RangePerm, RngSeeded(seed))} } : TRUE

\* Python's & on unbounded two's-complement integers, for a mask m >= 0
RECURSIVE BitAndNat(_, _)
BitAndNat(a, m) ==
    IF a = 0 \/ m = 0 THEN 0
    ELSE (a % 2) * (m % 2) + 2 * BitAndNat(a \div 2, m \div 2)

BitAnd(a, m) == IF a >= 0 THEN BitAndNat(a, m) ELSE m - BitAndNat(-a - 1, m)

\* line 46: "& 255"
Mask(i) == BitAnd(i, HashMask)

\* Python list indexing: a negative index counts from the end, anything outside
\* -len..len-1 raises IndexError
IndexError == -1
IndexErrorInSample == <<0, 0>>
PyIndexOk(f, i) == LET n == Cardinality(DOMAIN f) IN i >= -n /\ i < n
PyIndex(f, i) == LET n == Cardinality(DOMAIN f) IN IF i >= 0 THEN f[i] ELSE f[n + i]

\* line 46: the indices _hash uses, in order: two into perm, one into values;
\* the list stops at the index that raises
HashIndices(nz, ix, iy) ==
    LET i1 == Mask(ix)
    IN IF ~PyIndexOk(nz.perm, i1) THEN <<i1>>
       ELSE LET i2 == PyIndex(nz.perm, i1) + Mask(iy)
            IN IF ~PyIndexOk(nz.perm, i2) THEN <<i1, i2>>
               ELSE <<i1, i2, Mask(PyIndex(nz.perm, i2))>>

\* line 46: the lattice value, numerator over ValueDen, or IndexError
Hash(nz, ix, iy) ==
    LET idx == HashIndices(nz, ix, iy)
    IN IF Len(idx) < 3 \/ ~PyIndexOk(nz.values, idx[3]) THEN IndexError
       ELSE PyIndex(nz.values, idx[3])

\* lines 27-28
Lerp(a, b, t) == RAdd(a, RMul(RSub(b, a), t))

\* lines 31-32
Smoothstep(t) == RMul(RMul(t, t), RSub(RInt(3), RMul(RInt(2), t)))

\* lines 49-50
CellOf(x) == RFloor(x)

\* lines 56-59: the four corners hashed by sample(x, y)
Corners(x, y) ==
    LET ix == CellOf(x)
        iy == CellOf(y)
    IN <<<<ix, iy>>, <<ix + 1, iy>>, <<ix, iy + 1>>, <<ix + 1, iy + 1>>>>

\* lines 48-61: sample(x, y) as a rational, or IndexErrorInSample
Sample(nz, x, y) ==
    LET cs == Corners(x, y)
        fx == Smoothstep(RSub(x, RInt(cs[1][1])))
        fy == Smoothstep(RSub(y, RInt(cs[1][2])))
        v == [k \in 1..4 |-> Hash(nz, cs[k][1], cs[k][2])]
        q(k) == RNorm(v[k], ValueDen)
    IN IF \E k \in 1..4 : v[k] = IndexError THEN IndexErrorInSample
       ELSE Lerp(Lerp(q(1), q(2), fx), Lerp(q(3), q(4), fx), fy)

----------------------------------------------------------------------------
(* fbm and generate_texture *)

HalveNot(a) == a

\* line 71: amplitude *= 0.5
Halve(a) == RMul(a, <<1, 2>>)

\* line 72: frequency *= 2.0
Double(f) == RMul(f, RInt(2))

\* lines 67-72: <<amplitude, frequency>> of octave i, i = 0, 1, ...
RECURSIVE OctaveAt(_)
OctaveAt(i) ==
    IF i = 0 THEN <<<<1, 2>>, RInt(1)>>
    ELSE LET p == OctaveAt(i - 1) IN <<Halve(p[1]), Double(p[2])>>

\* line 70: the term octave i adds
FbmTerm(nz, x, y, i) ==
    LET o == OctaveAt(i)
    IN RMul(o[1], Sample(nz, RMul(x, o[2]), RMul(y, o[2])))

\* lines 64-73: the sum of the octaves i..octaves-1
RECURSIVE FbmFrom(_, _, _, _, _)
FbmFrom(nz, x, y, i, octaves) ==
    IF i >= octaves THEN RInt(0)
    ELSE RAdd(FbmTerm(nz, x, y, i), FbmFrom(nz, x, y, i + 1, octaves))

Fbm(nz, x, y, octaves) == FbmFrom(nz, x, y, 0, octaves)

SeedOffsets == <<0, 137, 271>>       \* lines 78-80
LayerOctaves == <<5, 4, 3>>          \* lines 97, 99, 101
LayerScale == <<1, 2, 6>>            \* lines 97, 99, 101
LayerWeight == <<<<1, 2>>, <<3, 10>>, <<1, 5>>>>   \* line 104
BaseColor == <<35, 30, 28>>          \* line 86
VarColor == <<20, 15, 12>>           \* line 88
TileDomain == 8

\* lines 93-94: x / size * 8.0
TileCoord(x, size) == RMul(RNorm(x, size), RInt(TileDomain))

\* lines 97-101: f1, f2, f3 at pixel (x, y)
Layers(fields, size, x, y) ==
    [k \in 1..3 |->
        Fbm(fields[k], RMul(TileCoord(x, size), RInt(LayerScale[k])),
            RMul(TileCoord(y, size), RInt(LayerScale[k])), LayerOctaves[k])]

\* line 104
Combine(f) ==
    RAdd(RAdd(RMul(f[1], LayerWeight[1]), RMul(f[2], LayerWeight[2])),
         RMul(f[3], LayerWeight[3]))

\* line 105: max(0.0, min(1.0, v))
ClampUnit(v) ==
    IF RLess(v, RInt(0)) THEN RInt(0) ELSE IF RLess(RInt(1), v) THEN RInt(1) ELSE v

\* lines 107-109, before the clamp and int(): base + var * v
RawChannel(k, v) == RAdd(RInt(BaseColor[k]), RMul(RInt(VarColor[k]), v))

\* lines 107-109: int(max(0, min(255, c))); the clamped value is not negative,
\* so int() is floor
ChannelByte(c) == Max(0, Min(255, RFloor(c)))

\* lines 93-111: everything computed for pixel (x, y)
PixelTrace(fields, size, x, y) ==
    LET f == Layers(fields, size, x, y)
        v0 == Combine(f)
        v == ClampUnit(v0)
        raw == [k \in 1..3 |-> RawChannel(k, v)]
    IN [f |-> f, v0 |-> v0, v |-> v, raw |-> raw,
        px |-> <<ChannelByte(raw[1]), ChannelByte(raw[2]), ChannelByte(raw[3]), 255>>]

LoopCellsShort(size) ==
    [k \in 1..(size * size - 1) |-> <<(k - 1) % size, (k - 1) \div size>>]

\* lines 90-91: the pixels in the order the two loops visit them
LoopCells(size) ==
    [k \in 1..(size * size) |-> <<(k - 1) % size, (k - 1) \div size>>]

NoGrid == [size |-> -1, px |-> <<>>, writes |-> <<>>]
NoTrace == [f |-> <<>>, v0 |-> <<>>, v |-> <<>>, raw |-> <<>>, px |-> <<>>]

\* lines 82-83: Image.new('RGBA', (size, size)) is transparent black
NewGrid(size) ==
    [size |-> size,
     px |-> [c \in (0..(size - 1)) \X (0..(size - 1)) |-> <<0, 0, 0, 0>>],
     writes |-> [c \in (0..(size - 1)) \X (0..(size - 1)) |-> 0]]

----------------------------------------------------------------------------
(* generate_bg_texture.main *)

DefaultSeed == 42
MaxSeedSpan == 1     \* seeds run over DefaultSeed -+ MaxSeedSpan, 0 and -DefaultSeed
MaxTexSize == 3      \* sizes run over -1..MaxTexSize

TexSeeds ==
    {DefaultSeed + k : k \in (-MaxSeedSpan)..MaxSeedSpan} \cup {0, -DefaultSeed}
TexSizes == (-1)..MaxTexSize

TIdle ==
    /\ tpc = "idle" /\ tSize = 0 /\ tSeed = 0 /\ tNoise = <<>> /\ tGrid = NoGrid
    /\ tCur = 0 /\ tLast = NoTrace /\ tDir = FALSE /\ tSaved = NoGrid /\ tExit = -1

\* lines 134-137: the arguments are parsed, the progress line printed and
\* generate_texture(args.size, args.seed) entered
TInit ==
    /\ tpc = "noise"
    /\ tSize \in TexSizes
    /\ tSeed \in TexSeeds
    /\ tNoise = <<>>
    /\ tGrid = NoGrid
    /\ tCur = 0
    /\ tLast = NoTrace
    /\ tDir = FALSE
    /\ tSaved = NoGrid
    /\ tExit = -1

\* lines 78-80: the next of noise1, noise2, noise3
TConstruct ==
    /\ tpc = "noise"
    /\ tNoise' = Append(tNoise, ValueNoise2D(tSeed + SeedOffsets[Len(tNoise) + 1]))
    /\ tpc' = IF Len(tNoise) = 2 THEN "alloc" ELSE "noise"
    /\ UNCHANGED <<tSize, tSeed, tGrid, tCur, tLast, tDir, tSaved, tExit>>
    /\ UNCHANGED <<nvars, hvars>>

\* lines 82-83
TAlloc ==
    /\ tpc = "alloc"
    /\ tSize >= 0
    /\ tGrid' = NewGrid(tSize)
    /\ tpc' = "loop"
    /\ UNCHANGED <<tSize, tSeed, tNoise, tCur, tLast, tDir, tSaved, tExit>>
    /\ UNCHANGED <<nvars, hvars>>

\* line 82: Image.new raises ValueError for a negative size; the exception
\* leaves main and the interpreter exits with status 1
TAllocFail ==
    /\ tpc = "alloc"
    /\ tSize < 0
    /\ tpc' = "exited"
    /\ tExit' = 1
    /\ UNCHANGED <<tSize, tSeed, tNoise, tGrid, tCur, tLast, tDir, tSaved>>
    /\ UNCHANGED <<nvars, hvars>>

\* lines 90-111: one iteration of the inner loop
TPixel ==
    /\ tpc = "loop"
    /\ tCur < Len(LoopCells(tSize))
    /\ LET c == LoopCells(tSize)[tCur + 1]
           t == PixelTrace(tNoise, tSize, c[1], c[2])
       IN /\ tLast' = t
          /\ tGrid' = [tGrid EXCEPT !.px[c] = t.px, !.writes[c] = @ + 1]
    /\ tCur' = tCur + 1
    /\ UNCHANGED <<tpc, tSize, tSeed, tNoise, tDir, tSaved, tExit>>
    /\ UNCHANGED <<nvars, hvars>>

\* line 113: the loops are over and generate_texture returns
TReturn ==
    /\ tpc = "loop"
    /\ tCur >= Len(LoopCells(tSize))
    /\ tpc' = "mkdir"
    /\ UNCHANGED <<tSize, tSeed, tNoise, tGrid, tCur, tLast, tDir, tSaved, tExit>>
    /\ UNCHANGED <<nvars, hvars>>

\* line 139
TMkdir ==
    /\ tpc = "mkdir"
    /\ tDir' = TRUE
    /\ tpc' = "save"
    /\ UNCHANGED <<tSize, tSeed, tNoise, tGrid, tCur, tLast, tSaved, tExit>>
    /\ UNCHANGED <<nvars, hvars>>

\* line 140
TSave ==
    /\ tpc = "save"
    /\ tSaved' = tGrid
    /\ tpc' = "report"
    /\ UNCHANGED <<tSize, tSeed, tNoise, tGrid, tCur, tLast, tDir, tExit>>
    /\ UNCHANGED <<nvars, hvars>>

\* line 140: img.save raises (the encoder refuses the image or the file); the
\* interpreter exits with status 1
TSaveFail ==
    /\ tpc = "save"
    /\ tpc' = "exited"
    /\ tExit' = 1
    /\ UNCHANGED <<tSize, tSeed, tNoise, tGrid, tCur, tLast, tDir, tSaved>>
    /\ UNCHANGED <<nvars, hvars>>

\* line 141 and the return from main
TDone ==
    /\ tpc = "report"
    /\ tpc' = "exited"
    /\ tExit' = 0
    /\ UNCHANGED <<tSize, tSeed, tNoise, tGrid, tCur, tLast, tDir, tSaved>>
    /\ UNCHANGED <<nvars, hvars>>

TNext ==
    \/ TConstruct
    \/ TAlloc
    \/ TAllocFail
    \/ TPixel
    \/ TReturn
    \/ TMkdir
    \/ TSave
    \/ TSaveFail
    \/ TDone

----------------------------------------------------------------------------
(* ValueNoise2D instances constructed side by side, statement by statement *)

NoiseFields == 3
MaxWrap == 1         \* sample coordinates reach MaxWrap periods of the table either way
CoordDen == 2        \* a sample coordinate is a numerator over CoordDen

Instances == 1..NoiseFields

\* the three seeds of generate_texture, and the first seed used twice with
\* another instance constructed in between
HarnessSeeds ==
    { [i \in Instances |-> DefaultSeed + SeedOffsets[i]],
      [i \in Instances |-> DefaultSeed + SeedOffsets[IF i = 2 THEN 2 ELSE 1]] }

SampleCoords ==
    {RNorm(CoordDen * TableSize * k + o, CoordDen) : k \in (-MaxWrap)..MaxWrap, o \in {-1, 0}}

NoGen == [seed |-> -1, drawn |-> 0]
NoSample == [inst |-> 0, x |-> <<>>, y |-> <<>>, cells |-> <<>>, idx |-> <<>>, result |-> <<>>]

GenShared(i) == 1

\* line 39: rng is a generator of the instance's own
GenOf(i) == i

HIdle ==
    /\ hSeeds = <<>> /\ hPhase = <<>> /\ hGen = <<>> /\ hPerm = <<>>
    /\ hValues = <<>> /\ hSample = NoSample

HInit ==
    /\ hSeeds \in HarnessSeeds
    /\ hPhase = [i \in Instances |-> 0]
    /\ hGen = [i \in Instances |-> NoGen]
    /\ hPerm = [i \in Instances |-> <<>>]
    /\ hValues = [i \in Instances |-> <<>>]
    /\ hSample = NoSample

\* lines 39-40
HSeed(i) ==
    /\ hPhase[i] = 0
    /\ hGen' = [hGen EXCEPT ![GenOf(i)] = RngSeeded(hSeeds[i])]
    /\ hPerm' = [hPerm EXCEPT ![i] = RangePerm]
    /\ hPhase' = [hPhase EXCEPT ![i] = 1]
    /\ UNCHANGED <<hSeeds, hValues, hSample>>
    /\ UNCHANGED <<nvars, tvars>>

\* line 41
HShuffle(i) ==
    /\ hPhase[i] = 1
    /\ LET sh == Shuffled(hPerm[i], hGen[GenOf(i)])
       IN /\ hPerm' = [hPerm EXCEPT ![i] = sh.perm]
          /\ hGen' = [hGen EXCEPT ![GenOf(i)] = sh.rng]
    /\ hPhase' = [hPhase EXCEPT ![i] = 2]
    /\ UNCHANGED <<hSeeds, hValues, hSample>>
    /\ UNCHANGED <<nvars, tvars>>

\* line 42
HDouble(i) ==
    /\ hPhase[i] = 2
    /\ hPerm' = [hPerm EXCEPT ![i] = PermDoubled(hPerm[i])]
    /\ hPhase' = [hPhase EXCEPT ![i] = 3]
    /\ UNCHANGED <<hSeeds, hGen, hValues, hSample>>
    /\ UNCHANGED <<nvars, tvars>>

\* line 43
HValues(i) ==
    /\ hPhase[i] = 3
    /\ LET rv == RandomValues(hGen[GenOf(i)])
       IN /\ hValues' = [hValues EXCEPT ![i] = rv.values]
          /\ hGen' = [hGen EXCEPT ![GenOf(i)] = rv.rng]
    /\ hPhase' = [hPhase EXCEPT ![i] = 4]
    /\ UNCHANGED <<hSeeds, hPerm, hSample>>
    /\ UNCHANGED <<nvars, tvars>>

\* lines 48-61: one call of sample on a constructed instance
HSample(i, x, y) ==
    /\ hPhase[i] = 4
    /\ hSample = NoSample
    /\ LET nz == [perm |-> hPerm[i], values |-> hValues[i]]
           cs == Corners(x, y)
       IN hSample' = [inst |-> i, x |-> x, y |-> y, cells |-> cs,
                      idx |-> [k \in 1..4 |-> HashIndices(nz, cs[k][1], cs[k][2])],
                      result |-> Sample(nz, x, y)]
    /\ UNCHANGED <<hSeeds, hPhase, hGen, hPerm, hValues>>
    /\ UNCHANGED <<nvars, tvars>>

HNext ==
    \E i \in Instances :
        \/ HSeed(i)
        \/ HShuffle(i)
        \/ HDouble(i)
        \/ HValues(i)
        \/ \E x \in SampleCoords, y \in SampleCoords : HSample(i, x, y)

----------------------------------------------------------------------------
(* generate_normals.main *)

InputExistsAlways(f) == TRUE

\* line 130: args.input.exists()
InputExists(f) == f # NoFile

NInit ==
    /\ npc = "check"
    /\ nFile \in Images \cup {NoFile}
    /\ nStrength \in Strengths
    /\ nSource \in Sources
    /\ nOpened = FALSE
    /\ nImg = NoImage
    /\ nMap = NoImage
    /\ nWritten = NoImage
    /\ nExit = -1

NIdle ==
    /\ npc = "idle" /\ nFile = NoFile /\ nStrength = 0 /\ nSource = "alpha"
    /\ nOpened = FALSE /\ nImg = NoImage /\ nMap = NoImage /\ nWritten = NoImage
    /\ nExit = -1

\* lines 130-132: message on stderr, sys.exit(1)
NCheckMissing ==
    /\ npc = "check"
    /\ ~InputExists(nFile)
    /\ npc' = "exited"
    /\ nExit' = 1
    /\ UNCHANGED <<nFile, nStrength, nSource, nOpened, nImg, nMap, nWritten>>
    /\ UNCHANGED <<tvars, hvars>>

\* lines 130, 134-139: the output path and the progress lines change no state
NCheckFound ==
    /\ npc = "check"
    /\ InputExists(nFile)
    /\ npc' = "open"
    /\ UNCHANGED <<nFile, nStrength, nSource, nOpened, nImg, nMap, nWritten, nExit>>
    /\ UNCHANGED <<tvars, hvars>>

\* line 141: Image.open(...).convert('RGBA') returns the decoded image
NOpen ==
    /\ npc = "open"
    /\ nFile # NoFile
    /\ nOpened' = TRUE
    /\ nImg' = nFile
    /\ npc' = "sobel"
    /\ UNCHANGED <<nFile, nStrength, nSource, nMap, nWritten, nExit>>
    /\ UNCHANGED <<tvars, hvars>>

\* line 141: Image.open raises (no such file, or not an image); the exception
\* leaves main and the interpreter exits with status 1
NOpenFail ==
    /\ npc = "open"
    /\ nOpened' = TRUE
    /\ npc' = "exited"
    /\ nExit' = 1
    /\ UNCHANGED <<nFile, nStrength, nSource, nImg, nMap, nWritten>>
    /\ UNCHANGED <<tvars, hvars>>

\* line 142
NSobel ==
    /\ npc = "sobel"
    /\ nMap' = SobelNormalMap(nImg, nStrength, nSource)
    /\ npc' = "save"
    /\ UNCHANGED <<nFile, nStrength, nSource, nOpened, nImg, nWritten, nExit>>
    /\ UNCHANGED <<tvars, hvars>>

\* line 143
NSave ==
    /\ npc = "save"
    /\ nWritten' = nMap
    /\ npc' = "report"
    /\ UNCHANGED <<nFile, nStrength, nSource, nOpened, nImg, nMap, nExit>>
    /\ UNCHANGED <<tvars, hvars>>

\* line 143: normal_map.save raises; the interpreter exits with status 1
NSaveFail ==
    /\ npc = "save"
    /\ npc' = "exited"
    /\ nExit' = 1
    /\ UNCHANGED <<nFile, nStrength, nSource, nOpened, nImg, nMap, nWritten>>
    /\ UNCHANGED <<tvars, hvars>>

\* line 145 and the return from main
NDone ==
    /\ npc = "report"
    /\ npc' = "exited"
    /\ nExit' = 0
    /\ UNCHANGED <<nFile, nStrength, nSource, nOpened, nImg, nMap, nWritten>>
    /\ UNCHANGED <<tvars, hvars>>

NNext ==
    \/ NCheckMissing
    \/ NCheckFound
    \/ NOpen
    \/ NOpenFail
    \/ NSobel
    \/ NSave
    \/ NSaveFail
    \/ NDone

InitNormals == NInit /\ TIdle /\ HIdle

InitTexture == TInit /\ NIdle /\ HIdle

InitNoise == HInit /\ NIdle /\ TIdle

SpecNormals == InitNormals /\ [][NNext]_vars

SpecTexture == InitTexture /\ [][TNext]_vars

SpecNoise == InitNoise /\ [][HNext]_vars

----------------------------------------------------------------------------
(* Properties of the normal-map generator *)

Offsets == {-1, 0, 1}

\* sobel_normal_map has just returned nMap for the image nImg
SobelReturned == npc = "save"

FlatHeight(img, source) ==
    \A c1, c2 \in DOMAIN img.px :
        HeightOf(img.px[c1], source) = HeightOf(img.px[c2], source)

\* Squared length, times 255^2, of the vector decoded from a pixel with
\* c / 255 * 2 - 1 per channel
DecodedLen2(p) ==
    (2 * p[1] - 255) * (2 * p[1] - 255) + (2 * p[2] - 255) * (2 * p[2] - 255)
    + (2 * p[3] - 255) * (2 * p[3] - 255)

\* C1: when the extracted height field is constant, gx = gy = 0 at every pixel
\* and every output pixel is (128, 128, 255, alpha of the same input pixel).
C1_FlatIsNeutral128 ==
    (SobelReturned /\ FlatHeight(nImg, nSource)) =>
        \A c \in DOMAIN nImg.px :
            /\ SobelGx(HeightMap(nImg, nSource), nImg, c[1], c[2]) = 0
            /\ SobelGy(HeightMap(nImg, nSource), nImg, c[1], c[2]) = 0
            /\ nMap.px[c] = <<128, 128, 255, nImg.px[c][4]>>

\* C2: the alpha of every output pixel is the alpha of the same input pixel,
\* the output has the input's size, and the input image is left as decoded.
C2_AlphaPassThrough ==
    SobelReturned =>
        /\ nMap.w = nImg.w /\ nMap.h = nImg.h
        /\ DOMAIN nMap.px = DOMAIN nImg.px
        /\ \A c \in DOMAIN nImg.px : nMap.px[c][4] = nImg.px[c][4]
        /\ nImg = nFile

C2_Witness ==
    /\ SobelReturned
    /\ nSource = "luminance"
    /\ \E c1, c2 \in DOMAIN nImg.px :
          /\ nImg.px[c1][4] # nImg.px[c2][4]
          /\ nImg.px[c1][4] \notin {0, 255}
          /\ nMap.px[c1][1] # 127
          /\ nMap.px[c1][3] # 255

\* C4: for every pixel and every offset in {-1,0,1}^2 the neighbourhood read is
\* the height at the nearest valid coordinate: inside the image, equal to the
\* requested coordinate when that is inside, and otherwise the edge closest to it.
Nearest(s, want, n) ==
    /\ s \in 0..(n - 1)
    /\ \A v \in 0..(n - 1) : Abs(s - want) <= Abs(v - want)

C4_ClampToNearestEdge ==
    SobelReturned =>
        \A c \in DOMAIN nImg.px : \A dx \in Offsets, dy \in Offsets :
            LET s == SampleCoord(nImg, c[1], c[2], dx, dy)
                hm == HeightMap(nImg, nSource)
            IN /\ Nearest(s[1], c[1] + dx, nImg.w)
               /\ Nearest(s[2], c[2] + dy, nImg.h)
               /\ s \in DOMAIN hm
               /\ HAt(hm, nImg, c[1], c[2], dx, dy) = HeightOf(nImg.px[s], nSource)

C4_Witness ==
    /\ SobelReturned
    /\ nImg.w >= 3 /\ nImg.h >= 3
    /\ ~FlatHeight(nImg, nSource)
    /\ SampleCoord(nImg, 0, 0, -1, -1) = <<0, 0>>
    /\ SampleCoord(nImg, nImg.w - 1, nImg.h - 1, 1, 1) = <<nImg.w - 1, nImg.h - 1>>
    /\ SampleCoord(nImg, 1, 1, -1, 1) = <<0, 2>>

\* C5: with no file at the input path the run ends with exit status 1 and
\* Image.open, sobel_normal_map and save never happen; decoding, the normal
\* map and the write only happen in that order after the existence check.
C5_MissingInputStopsEarly ==
    /\ nFile = NoFile =>
          /\ ~nOpened /\ nImg = NoImage /\ nMap = NoImage /\ nWritten = NoImage
          /\ npc \in {"check", "exited"}
          /\ npc = "exited" => nExit = 1
    /\ nOpened => npc # "check"
    /\ nImg # NoImage => nOpened
    /\ nMap # NoImage => nImg # NoImage
    /\ nWritten # NoImage => nMap # NoImage /\ nWritten = nMap

C5_Witness == nFile = NoFile /\ npc = "exited" /\ nExit = 1

----------------------------------------------------------------------------
(* Properties of the texture generator *)

\* C3 as stated: with a requested size <= 0 no noise field is constructed, no
\* pixel grid is allocated, no pixel is computed, no directory or file is
\* written, and the run ends with a non-zero exit status.
C3_NonPositiveSizeRejected ==
    tSize <= 0 =>
        /\ tNoise = <<>>
        /\ tGrid = NoGrid
        /\ tCur = 0
        /\ ~tDir
        /\ tSaved = NoGrid
        /\ tpc = "exited" => tExit # 0

Returned == tpc \in {"mkdir", "save", "report", "exited"} /\ tGrid # NoGrid

C7_GridWrittenOnce ==
    tSize >= 1 =>
        /\ tCur <= tSize * tSize
        /\ tGrid # NoGrid =>
              /\ DOMAIN tGrid.px = (0..(tSize - 1)) \X (0..(tSize - 1))
              /\ \A c \in DOMAIN tGrid.px :
                    /\ tGrid.writes[c] <= 1
                    /\ tGrid.writes[c] = 1 =>
                          /\ \A k \in 1..3 : tGrid.px[c][k] \in 0..255
                          /\ tGrid.px[c][4] = 255
              /\ Returned => \A c \in DOMAIN tGrid.px : tGrid.writes[c] = 1

\* What is left of a run of the texture generator: the statements of main and
\* generate_texture still ahead, then the noise fields still to construct,
\* then the iterations of the pixel loop still to make.
TRank ==
    LET ahead == CASE tpc = "noise" -> 6 [] tpc = "alloc" -> 5 [] tpc = "loop" -> 4
                   [] tpc = "mkdir" -> 3 [] tpc = "save" -> 2 [] tpc = "report" -> 1
                   [] OTHER -> 0
    IN ahead * 10000 + (3 - Len(tNoise)) * 1000 + (tSize * tSize - tCur)

\* C7: for a size N >= 1 the run terminates (every step lowers TRank, a natural
\* number); the grid is N x N, no pixel is ever written twice, every written
\* pixel has R, G, B in 0..255 and alpha 255, and once generate_texture has
\* returned every pixel has been written exactly once.
C7_TerminatesFullyWritten ==
    /\ [](C7_GridWrittenOnce)
    /\ [][tSize >= 1 => (TRank' < TRank /\ TRank' >= 0)]_vars

C7_Witness ==
    /\ tpc = "exited" /\ tExit = 0
    /\ tSize = 3
    /\ tSaved = tGrid
    /\ \A c \in DOMAIN tGrid.px : tGrid.writes[c] = 1
    /\ \E c1, c2 \in DOMAIN tGrid.px : tGrid.px[c1] # tGrid.px[c2]

\* C10: octave i of fbm has amplitude 2^-(i+1) and frequency 2^i; for every
\* pixel computed each layer f_k lies in [0, 1 - 2^-octaves_k), the combined
\* value lies in [0, 1) and is left unchanged by its clamp, the channel clamps
\* change nothing, and 35 <= R <= 55, 30 <= G <= 45, 28 <= B <= 40.
C10_FbmBoundedBelowOne ==
    /\ \A i \in 0..4 : OctaveAt(i) = <<<<1, 2 ^ (i + 1)>>, <<2 ^ i, 1>>>>
    /\ tLast # NoTrace =>
          /\ \A k \in 1..3 :
                /\ RLeq(RInt(0), tLast.f[k])
                /\ RLess(tLast.f[k], <<2 ^ LayerOctaves[k] - 1, 2 ^ LayerOctaves[k]>>)
          /\ RLeq(RInt(0), tLast.v0) /\ RLess(tLast.v0, RInt(1))
          /\ tLast.v = tLast.v0
          /\ \A k \in 1..3 :
                /\ RLeq(RInt(0), tLast.raw[k]) /\ RLeq(tLast.raw[k], RInt(255))
                /\ tLast.px[k] = RFloor(tLast.raw[k])
          /\ tLast.px[1] \in 35..55
          /\ tLast.px[2] \in 30..45
          /\ tLast.px[3] \in 28..40

C10_Witness ==
    /\ tLast # NoTrace
    /\ tSize = 3
    /\ \A k \in 1..3 : RLess(RInt(0), tLast.f[k]) /\ tLast.f[k][2] > 1
    /\ tLast.px[1] > 35

----------------------------------------------------------------------------
(* Properties of ValueNoise2D *)

Done(i) == hPhase[i] = 4

LatticeOf(i) == [perm |-> hPerm[i], values |-> hValues[i]]

\* C8: the tables of an instance depend on its seed only.  Two instances with
\* the same seed hold the same permutation once both are shuffled and the same
\* tables once both are constructed, whatever was constructed or sampled in
\* between; a constructed instance holds the tables of ValueNoise2D(seed)
\* constructed on its own; and no step, a call of sample included, changes the
\* tables of a constructed instance.
C8_SameSeedSameTables ==
    \A i \in Instances :
        /\ \A j \in Instances :
              hSeeds[i] = hSeeds[j] =>
                 /\ (hPhase[i] = 2 /\ hPhase[j] = 2) => hPerm[i] = hPerm[j]
                 /\ (Done(i) /\ Done(j)) => LatticeOf(i) = LatticeOf(j)
        /\ (Done(i) /\ hSample.inst \in {0, i}) =>
              LatticeOf(i) = ValueNoise2D(hSeeds[i])

C8_TablesNeverChange ==
    \A i \in Instances : Done(i) => (hPerm'[i] = hPerm[i] /\ hValues'[i] = hValues[i])

C8_LatticeDependsOnSeedOnly == [](C8_SameSeedSameTables) /\ [][C8_TablesNeverChange]_vars

C8_Witness ==
    /\ \A i \in Instances : Done(i)
    /\ hSeeds[1] = hSeeds[3] /\ hSeeds[1] # hSeeds[2]
    /\ hPerm[1] = hPerm[3] /\ hPerm[1] # hPerm[2] /\ hValues[1] # hValues[2]
    /\ hSample.inst = 1

\* C9: perm[0..255] is a bijection on 0..255, perm[i + 256] = perm[i], perm has
\* 512 entries and values 256; every call of sample, at negative coordinates
\* and at coordinates >= 256 too, uses only indices inside 0..511 of perm and
\* 0..255 of values, raises nothing, starts from the floor of its arguments, and
\* hashes each corner to the lattice value of the corner reduced modulo 256.
C9_TablesAndIndices ==
    /\ \A i \in Instances : Done(i) =>
          /\ DOMAIN hPerm[i] = 0..511
          /\ DOMAIN hValues[i] = 0..255
          /\ {hPerm[i][k] : k \in 0..255} = 0..255
          /\ \A k \in 0..255 : hPerm[i][k + 256] = hPerm[i][k]
    /\ hSample # NoSample =>
          /\ hSample.result # IndexErrorInSample
          /\ hSample.cells[1][1] * hSample.x[2] <= hSample.x[1]
          /\ hSample.x[1] < (hSample.cells[1][1] + 1) * hSample.x[2]
          /\ hSample.cells[1][2] * hSample.y[2] <= hSample.y[1]
          /\ hSample.y[1] < (hSample.cells[1][2] + 1) * hSample.y[2]
          /\ \A k \in 1..4 :
                /\ Len(hSample.idx[k]) = 3
                /\ hSample.idx[k][1] \in 0..511
                /\ hSample.idx[k][2] \in 0..511
                /\ hSample.idx[k][3] \in 0..255
                /\ Hash(LatticeOf(hSample.inst), hSample.cells[k][1], hSample.cells[k][2])
                      = Hash(LatticeOf(hSample.inst), hSample.cells[k][1] % 256,
                             hSample.cells[k][2] % 256)

C9_Witness ==
    /\ hSample # NoSample
    /\ hSample.cells[1][1] < 0
    /\ hSample.cells[4][2] >= 256
    /\ hSample.x[2] > 1
    /\ \E k \in 1..4 : hSample.idx[k][2] >= 256

====
